---- MODULE Spec2Model ----
(***************************************************************************)
(* AgriDiag (src/app.py): a Streamlit script.  Every user interaction      *)
(* re-runs the script top to bottom; st.session_state.results is the only  *)
(* value that survives from one run to the next.  The model follows one    *)
(* browser session: a run is a sequence of steps in source order, and the  *)
(* external model (Gemini) and the image decoder (PIL) are the             *)
(* environment.                                                            *)
(*                                                                         *)
(* Text is modelled as a sequence of tokens, so an f-string is a           *)
(* concatenation and str.strip() removes blank tokens at both ends.        *)
(***************************************************************************)
EXTENDS Integers, Sequences, FiniteSets, TLC

\* ------------------------------------------------------------------ bounds
\* Largest number of files in one upload.
MaxFiles == 2
\* Largest length of st.session_state.results: an action is not triggered
\* when its entries would not fit.
MaxResults == 2

\* --------------------------------------------------------- program constants
BudgetFindDisease == 500
BudgetSuggestions == 400
BudgetCustomQuestion == 200

\* -------------------------------------------------------------- environment
\* What PIL does with an uploaded file: "ok" opens and converts to JPEG,
\* "unopenable" makes Image.open raise, "unconvertible" opens and is shown
\* but makes convert/save raise.
FileKinds == {"ok", "unopenable", "unconvertible"}
\* An uploaded file: its name stands for its content, and files of one upload
\* are named by their position, so two files of an upload are never equal.
UploadedFile(k, kind) == [name |-> <<"file", k>>, kind |-> kind]
\* The uploads the file_uploader can hold (accept_multiple_files=True).
Uploads ==
    UNION { { [k \in 1..n |-> UploadedFile(k, kinds[k])] : kinds \in [1..n -> FileKinds] }
            : n \in 0..MaxFiles }
\* The texts the custom question box can hold: empty, blank, a question.
Texts == { <<>>, <<" ">>, <<"q">> }
\* The buttons of the sidebar; one interaction presses at most one.
Buttons == {"none", "find_disease", "suggestions", "custom_question", "clear_results"}
\* response.text of a successful request, and the messages of exceptions.
Replies == { <<"blight">> }
Exceptions == { "boom" }

VARIABLES
    GEMINI_KEY,          \* whether GEMINI_API_KEY is configured
    session_state,       \* st.session_state: a function on the keys it holds
    uploaded_file,       \* value of the file_uploader widget
    find_disease,        \* the four buttons of the sidebar
    suggestions,
    custom_question,
    clear_results,
    custom_user_prompt,  \* what the run read from the text_input widget
    images,              \* locals of the run
    image_bytes_list,
    fileIdx,             \* position of the upload loop
    idx,                 \* enumerate index of the action loop
    output,              \* value returned by call_gemini_with_image
    pc,                  \* position of the run in the script
    callpc,              \* position inside call_gemini_with_image
    inflight,            \* requests sent to the external model, not yet answered
    page,                \* elements the run has rendered, in order
    calls,               \* history: arguments of each call_gemini_with_image of the run
    requests,            \* history: requests the run has sent to the model
    events,              \* history: how each call of the run ended
    startResults         \* history: the results list when the run started

vars == << GEMINI_KEY, session_state, uploaded_file, find_disease, suggestions,
           custom_question, clear_results, custom_user_prompt, images,
           image_bytes_list, fileIdx, idx, output, pc, callpc, inflight, page,
           calls, requests, events, startResults >>

widgets == << uploaded_file, find_disease, suggestions, custom_question,
              clear_results >>
locals == << custom_user_prompt, images, image_bytes_list, fileIdx, idx, output >>
history == << calls, requests, events, startResults >>

\* ------------------------------------------------------------ pure helpers
\* st.session_state before any key is set.
EmptySessionState == [k \in {} |-> <<>>]
\* st.session_state.results, and the empty list while the key is unset.
Results == IF "results" \in DOMAIN session_state THEN session_state["results"] ELSE <<>>

\* str(n) of the f-strings.
Str(n) == <<"0", "1", "2", "3", "4", "5", "6", "7", "8", "9">>[n + 1]

IsSpace(c) == c = " "
RECURSIVE LStrip(_)
LStrip(s) == IF s # <<>> /\ IsSpace(Head(s)) THEN LStrip(Tail(s)) ELSE s
RECURSIVE RStrip(_)
RStrip(s) ==
    IF s # <<>> /\ IsSpace(s[Len(s)]) THEN RStrip(SubSeq(s, 1, Len(s) - 1)) ELSE s
\* str.strip()
Strip(s) == RStrip(LStrip(s))

\* reversed(list)
Reversed(s) == [i \in 1..Len(s) |-> s[Len(s) + 1 - i]]

\* image.convert("RGB").save(buf, format="JPEG", quality=90); buf.getvalue()
JpegBytes(file) == <<"jpeg", file.name>>

\* The three prompts.
prompt_find_disease == <<"You are an expert plant pathologist.">>
prompt_suggestions == <<"You are an experienced crop protection specialist.">>
combined_prompt(text) ==
    <<"You are a helpful plant pathology assistant.", "User question: ">>
        \o text \o <<"Provide a concise, practical answer.">>

\* The titles of the result entries; i is the enumerate index, from 0.
TitleFindDisease(i) ==
    <<"Likely Disease(s) & Diagnostic Clues", " (Image ", Str(i + 1), ")">>
TitleSuggestions(i) ==
    <<"Practical Suggestions & Monitoring Plan", " (Image ", Str(i + 1), ")">>
TitleCustomQuestion(text, i) ==
    <<"Answer to: ">> \o text \o <<" (Image ", Str(i + 1), ")">>

\* The string the except clause of call_gemini_with_image returns.
ErrorPrefix == "Error calling Gemini API: "
ErrorString(e) == <<ErrorPrefix, e>>

\* ------------------------------------------------------- rendered elements
\* st.image(image, caption=f"Uploaded: {file.name}")
ImageElement(file) == [element |-> "image", name |-> file.name]
\* st.error(f"Couldn't open image {file.name}: {e}")
DecodeErrorElement(file) == [element |-> "error", name |-> file.name]
\* One card of the results feed: the title in the h4, the content in the p.
Card(result) == [element |-> "card", h4 |-> result.title, p |-> result.content]
\* One "DISPLAY RESULTS AS CARDS" block: nothing for an empty list, else a
\* rule, the heading and one card per entry of reversed(results).
ResultsFeed(rs) ==
    IF rs = <<>> THEN <<>>
    ELSE << [element |-> "rule"], [element |-> "heading"] >>
             \o [i \in 1..Len(rs) |-> Card(Reversed(rs)[i])]

\* ------------------------------------------------------ the action buttons
Sections == {"find_disease", "suggestions", "custom_question"}
NextSection(s) ==
    CASE s = "find_disease" -> "suggestions"
      [] s = "suggestions" -> "custom_question"
      [] s = "custom_question" -> "display"
\* The button that guards a section.
Pressed(s) ==
    CASE s = "find_disease" -> find_disease
      [] s = "suggestions" -> suggestions
      [] s = "custom_question" -> custom_question
\* Variant: if not custom_user_prompt
PromptIsBlank_NoStrip == custom_user_prompt = <<>>
\* if not custom_user_prompt.strip()
PromptIsBlank == Strip(custom_user_prompt) = <<>>
\* Whether a section runs its loop over image_bytes_list.
Runs(s) == Pressed(s) /\ (s = "custom_question" => ~PromptIsBlank)
\* The arguments a section gives call_gemini_with_image.
PromptOf(s) ==
    CASE s = "find_disease" -> prompt_find_disease
      [] s = "suggestions" -> prompt_suggestions
      [] s = "custom_question" -> combined_prompt(custom_user_prompt)
BudgetOf(s) ==
    CASE s = "find_disease" -> BudgetFindDisease
      [] s = "suggestions" -> BudgetSuggestions
      [] s = "custom_question" -> BudgetCustomQuestion
\* The title a section gives the entry of enumerate index i.
TitleOf(s, i) ==
    CASE s = "find_disease" -> TitleFindDisease(i)
      [] s = "suggestions" -> TitleSuggestions(i)
      [] s = "custom_question" -> TitleCustomQuestion(custom_user_prompt, i)

\* ----------------------------------------------------------------- Init
Init ==
    /\ GEMINI_KEY \in BOOLEAN
    /\ session_state = EmptySessionState
    /\ uploaded_file = <<>>
    /\ find_disease = FALSE
    /\ suggestions = FALSE
    /\ custom_question = FALSE
    /\ clear_results = FALSE
    /\ custom_user_prompt = <<>>
    /\ images = <<>>
    /\ image_bytes_list = <<>>
    /\ fileIdx = 0
    /\ idx = 0
    /\ output = <<>>
    /\ pc = "idle"
    /\ callpc = "none"
    /\ inflight = {}
    /\ page = <<>>
    /\ calls = <<>>
    /\ requests = <<>>
    /\ events = <<>>
    /\ startResults = <<>>

\* What every start of the script resets: the page is rendered anew, the
\* names of the script are unbound and the history of the run starts empty.
BeginRun ==
    /\ pc' = "config"
    /\ callpc' = "none"
    /\ page' = <<>>
    /\ calls' = <<>>
    /\ requests' = <<>>
    /\ events' = <<>>
    /\ startResults' = Results
    /\ custom_user_prompt' = <<>>
    /\ images' = <<>>
    /\ image_bytes_list' = <<>>
    /\ fileIdx' = 0
    /\ idx' = 0
    /\ output' = <<>>
    /\ UNCHANGED << GEMINI_KEY, session_state, inflight >>

\* An action that appends one entry per decoded image fits the bound.
Fits(files, button) ==
    button \in Sections => Len(Results) + Len(files) <= MaxResults

\* A user interaction: the widgets take their new values and the script
\* runs again from the top.  At most one button is pressed.  Without a key
\* the script stops before it makes the sidebar, so there is no uploader
\* and no button to use, and the page can only be loaded again.
Interact(files, button) ==
    /\ pc \in {"idle", "done", "stopped", "crashed"}
    /\ ~GEMINI_KEY => files = <<>> /\ button = "none"
    /\ Fits(files, button)
    /\ uploaded_file' = files
    /\ find_disease' = (button = "find_disease")
    /\ suggestions' = (button = "suggestions")
    /\ custom_question' = (button = "custom_question")
    /\ clear_results' = (button = "clear_results")
    /\ BeginRun

\* GEMINI CONFIG: without a key the script reports it and stops.
StopWithoutKey ==
    /\ pc = "config"
    /\ ~GEMINI_KEY
    /\ page' = Append(page, [element |-> "stop"])
    /\ pc' = "stopped"
    /\ UNCHANGED << GEMINI_KEY, session_state, widgets, locals, callpc, inflight, history >>

\* SESSION STATE: if "results" not in st.session_state: results = []
InitSessionState ==
    /\ pc = "config"
    /\ GEMINI_KEY
    /\ session_state' =
         IF "results" \in DOMAIN session_state THEN session_state
         ELSE [k \in {"results"} |-> <<>>]
    /\ pc' = "session"
    /\ UNCHANGED << GEMINI_KEY, widgets, locals, callpc, inflight, page, history >>

\* Variant: Clear restarts the script and leaves the list.
ClearResults_KeepList ==
    /\ pc = "session"
    /\ clear_results
    /\ pc' = "rerun"
    /\ UNCHANGED << GEMINI_KEY, session_state, widgets, locals, callpc, inflight, page,
                    history >>

\* if clear_results: st.session_state.results = []; st.rerun()
ClearResults ==
    /\ pc = "session"
    /\ clear_results
    /\ session_state' = [session_state EXCEPT !["results"] = <<>>]
    /\ pc' = "rerun"
    /\ UNCHANGED << GEMINI_KEY, widgets, locals, callpc, inflight, page, history >>

\* st.rerun(): the script starts again at once; a button is True only in the
\* run its press triggered.
Rerun ==
    /\ pc = "rerun"
    /\ find_disease' = FALSE
    /\ suggestions' = FALSE
    /\ custom_question' = FALSE
    /\ clear_results' = FALSE
    /\ BeginRun
    /\ UNCHANGED uploaded_file

\* else: st.info("Please upload an image to get started.")
NoUpload ==
    /\ pc = "session"
    /\ ~clear_results
    /\ uploaded_file = <<>>
    /\ page' = Append(page, [element |-> "info"])
    /\ pc' = "done"
    /\ UNCHANGED << GEMINI_KEY, session_state, widgets, locals, callpc, inflight, history >>

\* if uploaded_file: images = []; image_bytes_list = []
BeginUpload ==
    /\ pc = "session"
    /\ ~clear_results
    /\ uploaded_file # <<>>
    /\ images' = <<>>
    /\ image_bytes_list' = <<>>
    /\ fileIdx' = 0
    /\ pc' = "decode"
    /\ UNCHANGED << GEMINI_KEY, session_state, widgets, custom_user_prompt, idx, output,
                    callpc, inflight, page, history >>

\* Variant: the first file that fails ends the loop (break, not continue).
DecodeFile_StopAtError ==
    /\ pc = "decode"
    /\ fileIdx < Len(uploaded_file)
    /\ LET file == uploaded_file[fileIdx + 1] IN
         IF file.kind = "ok"
         THEN /\ images' = Append(images, file.name)
              /\ page' = Append(page, ImageElement(file))
              /\ image_bytes_list' = Append(image_bytes_list, JpegBytes(file))
              /\ fileIdx' = fileIdx + 1
         ELSE /\ page' = Append(page, DecodeErrorElement(file))
              /\ fileIdx' = Len(uploaded_file)
              /\ UNCHANGED << images, image_bytes_list >>
    /\ UNCHANGED << GEMINI_KEY, session_state, widgets, custom_user_prompt, idx, output,
                    pc, callpc, inflight, history >>

\* One iteration of "for file in uploaded_file": open, show, convert; any
\* exception is reported and the loop continues with the next file.
DecodeFile ==
    /\ pc = "decode"
    /\ fileIdx < Len(uploaded_file)
    /\ LET file == uploaded_file[fileIdx + 1] IN
         CASE file.kind = "ok" ->
                /\ images' = Append(images, file.name)
                /\ page' = Append(page, ImageElement(file))
                /\ image_bytes_list' = Append(image_bytes_list, JpegBytes(file))
           [] file.kind = "unopenable" ->
                /\ page' = Append(page, DecodeErrorElement(file))
                /\ UNCHANGED << images, image_bytes_list >>
           [] file.kind = "unconvertible" ->
                /\ images' = Append(images, file.name)
                /\ page' = page \o << ImageElement(file), DecodeErrorElement(file) >>
                /\ UNCHANGED image_bytes_list
    /\ fileIdx' = fileIdx + 1
    /\ UNCHANGED << GEMINI_KEY, session_state, widgets, custom_user_prompt, idx, output,
                    pc, callpc, inflight, history >>

\* The upload loop is over: the prompts are built and
\* custom_user_prompt = st.text_input(...) reads what the user has typed;
\* the script reaches the action buttons.  (The total-size warning of lines
\* 173-175 only renders a message; image sizes are not modelled.)
EndUpload ==
    /\ pc = "decode"
    /\ fileIdx = Len(uploaded_file)
    /\ custom_user_prompt' \in Texts
    /\ pc' = "find_disease"
    /\ idx' = 0
    /\ UNCHANGED << GEMINI_KEY, session_state, widgets, images, image_bytes_list,
                    fileIdx, output, callpc, inflight, page, history >>

\* ------------------------------------------------- call_gemini_with_image
\* The request generate_content sends for the arguments of a call.
Request(image_bytes, prompt_text, thinking_budget) ==
    [model |-> "gemini-2.5-flash",
     contents |-> << [data |-> image_bytes, mime_type |-> "image/jpeg"], prompt_text >>,
     thinking_budget |-> thinking_budget]
\* Variant: the try covers generate_content alone.
Except_NetworkOnly(e, place) ==
    [propagates |-> place # "network", value |-> ErrorString(e)]
\* except Exception as e: return f"... Error calling Gemini API: {e}".  The
\* clause covers the whole body, so an exception raised at any place of it
\* ("build": making the request, "network": generate_content) is returned
\* as text and never propagates.
Except(e, place) == [propagates |-> FALSE, value |-> ErrorString(e)]
\* What a raise inside the call does to the run.
Raise(e, place) ==
    /\ events' = Append(events, [kind |-> "raise", value |-> e, place |-> place])
    /\ IF Except(e, place).propagates
       THEN /\ pc' = "crashed"
            /\ callpc' = "none"
            /\ UNCHANGED output
       ELSE /\ output' = Except(e, place).value
            /\ callpc' = "returned"
            /\ UNCHANGED pc

\* Variant: the loop does not wait for a call to end before the next one.
Call_Overlapping(s) ==
    /\ pc = s
    /\ Runs(s)
    /\ callpc \in {"none", "sent"}
    /\ Len(calls) < Len(image_bytes_list)
    /\ LET image_bytes == image_bytes_list[Len(calls) + 1]
           req == Request(image_bytes, PromptOf(s), BudgetOf(s))
       IN /\ calls' = Append(calls, [image_bytes |-> image_bytes,
                                      prompt_text |-> PromptOf(s),
                                      thinking_budget |-> BudgetOf(s)])
          /\ inflight' = inflight \cup { [id |-> Len(requests) + 1, request |-> req] }
          /\ requests' = Append(requests, req)
          /\ callpc' = "sent"
    /\ UNCHANGED << GEMINI_KEY, session_state, widgets, custom_user_prompt, images,
                    image_bytes_list, fileIdx, idx, page, startResults, pc, output,
                    events >>

\* The loop calls call_gemini_with_image for image_bytes_list[idx]: the body
\* builds the request and either raises or sends it and waits.
Call(s) ==
    /\ pc = s
    /\ Runs(s)
    /\ callpc = "none"
    /\ idx < Len(image_bytes_list)
    /\ LET image_bytes == image_bytes_list[idx + 1]
           req == Request(image_bytes, PromptOf(s), BudgetOf(s))
       IN /\ calls' = Append(calls, [image_bytes |-> image_bytes,
                                      prompt_text |-> PromptOf(s),
                                      thinking_budget |-> BudgetOf(s)])
          /\ \/ /\ \E e \in Exceptions : Raise(e, "build")
                /\ UNCHANGED << inflight, requests >>
             \/ /\ inflight' = inflight \cup { [id |-> Len(requests) + 1, request |-> req] }
                /\ requests' = Append(requests, req)
                /\ callpc' = "sent"
                /\ UNCHANGED << pc, output, events >>
    /\ UNCHANGED << GEMINI_KEY, session_state, widgets, custom_user_prompt, images,
                    image_bytes_list, fileIdx, idx, page, startResults >>

\* Variant: a request that fails is sent once more.
Return_Retry(s) ==
    /\ pc = s
    /\ callpc = "sent"
    /\ \E r \in inflight :
         \/ /\ \E text \in Replies :
                 /\ output' = text
                 /\ events' = Append(events, [kind |-> "response", value |-> text,
                                                place |-> "network"])
            /\ inflight' = inflight \ {r}
            /\ callpc' = "returned"
            /\ UNCHANGED << pc, requests >>
         \/ /\ Len(requests) <= Len(calls)
            /\ requests' = Append(requests, r.request)
            /\ inflight' = { [id |-> Len(requests) + 1, request |-> r.request] }
            /\ UNCHANGED << pc, callpc, output, events >>
         \/ /\ Len(requests) > Len(calls)
            /\ \E e \in Exceptions : Raise(e, "network")
            /\ inflight' = inflight \ {r}
            /\ UNCHANGED requests
    /\ UNCHANGED << GEMINI_KEY, session_state, widgets, custom_user_prompt, images,
                    image_bytes_list, fileIdx, idx, page, calls, startResults >>

\* generate_content comes back: with a response, whose text is returned, or
\* with an exception.
Return(s) ==
    /\ pc = s
    /\ callpc = "sent"
    /\ \E r \in inflight :
         /\ inflight' = inflight \ {r}
         /\ \/ \E text \in Replies :
                 /\ output' = text
                 /\ events' = Append(events, [kind |-> "response", value |-> text,
                                                place |-> "network"])
                 /\ callpc' = "returned"
                 /\ UNCHANGED pc
            \/ \E e \in Exceptions : Raise(e, "network")
    /\ UNCHANGED << GEMINI_KEY, session_state, widgets, custom_user_prompt, images,
                    image_bytes_list, fileIdx, idx, page, calls, requests,
                    startResults >>

\* Variant: the newest entry is put at the front of the list.
AppendResult_Prepend(s) ==
    /\ pc = s
    /\ callpc = "returned"
    /\ session_state' =
         [session_state EXCEPT !["results"] =
            << [title |-> TitleOf(s, idx), content |-> output] >> \o @]
    /\ idx' = idx + 1
    /\ callpc' = "none"
    /\ UNCHANGED << GEMINI_KEY, widgets, custom_user_prompt, images, image_bytes_list,
                    fileIdx, output, pc, inflight, page, history >>

\* Variant: the loop keeps the answers only, an error string is dropped.
AppendResult_SkipErrors(s) ==
    /\ pc = s
    /\ callpc = "returned"
    /\ session_state' =
         IF output[1] = ErrorPrefix THEN session_state
         ELSE [session_state EXCEPT !["results"] =
                 Append(@, [title |-> TitleOf(s, idx), content |-> output])]
    /\ idx' = idx + 1
    /\ callpc' = "none"
    /\ UNCHANGED << GEMINI_KEY, widgets, custom_user_prompt, images, image_bytes_list,
                    fileIdx, output, pc, inflight, page, history >>

\* st.session_state.results.append({"title": ..., "content": output}), and
\* the loop goes to the next image.
AppendResult(s) ==
    /\ pc = s
    /\ callpc = "returned"
    /\ session_state' =
         [session_state EXCEPT !["results"] =
            Append(@, [title |-> TitleOf(s, idx), content |-> output])]
    /\ idx' = idx + 1
    /\ callpc' = "none"
    /\ UNCHANGED << GEMINI_KEY, widgets, custom_user_prompt, images, image_bytes_list,
                    fileIdx, output, pc, inflight, page, history >>

\* The section is over: its button is not pressed, or its loop has gone
\* through image_bytes_list.
EndSection(s) ==
    /\ pc = s
    /\ callpc = "none"
    /\ \/ ~Pressed(s)
       \/ Runs(s) /\ idx = Len(image_bytes_list)
    /\ pc' = NextSection(s)
    /\ idx' = 0
    /\ UNCHANGED << GEMINI_KEY, session_state, widgets, custom_user_prompt, images,
                    image_bytes_list, fileIdx, output, callpc, inflight, page,
                    history >>

\* if not custom_user_prompt.strip(): st.warning("Please type a custom question first.")
WarnBlankPrompt ==
    /\ pc = "custom_question"
    /\ custom_question
    /\ PromptIsBlank
    /\ page' = Append(page, [element |-> "warning"])
    /\ pc' = "display"
    /\ UNCHANGED << GEMINI_KEY, session_state, widgets, locals, callpc, inflight, history >>

\* ------------------------------------------------------------- the feed
\* Variant: the feed shows the list as it was when the run started.
DisplayResults_Stale ==
    /\ pc = "display"
    /\ page' = page \o ResultsFeed(startResults)
    /\ pc' = "display_again"
    /\ UNCHANGED << GEMINI_KEY, session_state, widgets, locals, callpc, inflight, history >>

\* The first "DISPLAY RESULTS AS CARDS" block.
DisplayResults ==
    /\ pc = "display"
    /\ page' = page \o ResultsFeed(Results)
    /\ pc' = "display_again"
    /\ UNCHANGED << GEMINI_KEY, session_state, widgets, locals, callpc, inflight, history >>

\* The second "DISPLAY RESULTS AS CARDS" block, then the rule and the tip
\* that end the page.
DisplayResultsAgain ==
    /\ pc = "display_again"
    /\ page' = page \o ResultsFeed(Results) \o << [element |-> "rule"], [element |-> "tip"] >>
    /\ pc' = "done"
    /\ UNCHANGED << GEMINI_KEY, session_state, widgets, locals, callpc, inflight, history >>

\* ------------------------------------------------------------------ Next
Next ==
    \/ \E files \in Uploads, button \in Buttons : Interact(files, button)
    \/ StopWithoutKey
    \/ InitSessionState
    \/ ClearResults
    \/ Rerun
    \/ NoUpload
    \/ BeginUpload
    \/ DecodeFile
    \/ EndUpload
    \/ \E s \in Sections : Call(s)
    \/ \E s \in Sections : Return(s)
    \/ \E s \in Sections : AppendResult(s)
    \/ \E s \in Sections : EndSection(s)
    \/ WarnBlankPrompt
    \/ DisplayResults
    \/ DisplayResultsAgain

Spec == Init /\ [][Next]_vars

\* =================================================================== claims
\* Reference definitions, written from the run's inputs and from what the
\* environment did, against which the run's steps are compared.

IsPrefix(a, b) == Len(a) <= Len(b) /\ SubSeq(b, 1, Len(a)) = a
\* Empty or only whitespace.
IsBlankText(t) == \A i \in 1..Len(t) : t[i] = " "
\* The section an interaction triggers, if any: its button is pressed and,
\* for the custom question, the text is not blank.
Triggered(s) ==
    /\ Pressed(s)
    /\ s = "custom_question" => ~IsBlankText(custom_user_prompt)
NoneTriggered == \A s \in Sections : ~Triggered(s)
\* The entries the run has appended so far.
NewResults == SubSeq(Results, Len(startResults) + 1, Len(Results))
\* The files of an upload that decode, in upload order.
OkFiles(files) == SelectSeq(files, LAMBDA f : f.kind = "ok")
\* The last three tokens of a title.
TitleSuffix(title) == SubSeq(title, Len(title) - 2, Len(title))
\* What a call returns after the event ev.
ContentOf(ev) ==
    IF ev.kind = "response" THEN ev.value
    ELSE <<"Error calling Gemini API: ", ev.value>>
\* The run is over and has gone through the main content with an upload.
RunDoneWithUpload == pc = "done" /\ uploaded_file # <<>>

\* C1: call_gemini_with_image never lets an exception reach its caller: a
\* call that has ended has returned, and what it returned is the response's
\* text when the request succeeded and a string that begins with the error
\* prefix when building the request or the network call raised.
C1_CallReturnsTextOrErrorString ==
    /\ pc # "crashed"
    /\ Len(events) <= Len(calls)
    /\ callpc = "returned" =>
         /\ Len(events) = Len(calls)
         /\ LET ev == events[Len(events)] IN
              \/ /\ ev.kind = "response"
                 /\ output = ev.value
                 /\ output \in Replies
              \/ /\ ev.kind = "raise"
                 /\ ev.place \in {"build", "network"}
                 /\ Len(output) = 2
                 /\ output[1] = "Error calling Gemini API: "
                 /\ output[2] = ev.value
\* A call whose request could not be built has returned the error string.
C1_Witness ==
    /\ callpc = "returned"
    /\ events[Len(events)].kind = "raise"
    /\ events[Len(events)].place = "build"

\* C2: when a run with uploaded files ends and an action was triggered in
\* it, with n images decoded: it made exactly n calls, the k-th for the k-th
\* decoded image and all with the action's prompt, and it appended exactly n
\* entries, the k-th titled "(Image k)" and holding what the k-th call
\* returned, the error string of a failed call included.
C2_OneCallAndOneEntryPerImage ==
    RunDoneWithUpload =>
      \A s \in Sections : Triggered(s) =>
        LET n == Len(image_bytes_list) IN
          /\ Len(calls) = n
          /\ Len(events) = n
          /\ Len(NewResults) = n
          /\ IsPrefix(startResults, Results)
          /\ \A k \in 1..n :
               /\ calls[k].image_bytes = image_bytes_list[k]
               /\ calls[k].prompt_text = PromptOf(s)
               /\ TitleSuffix(NewResults[k].title) = <<" (Image ", Str(k), ")">>
               /\ NewResults[k].content = ContentOf(events[k])
\* Two images, the call for the first failed and the one for the second
\* succeeded.
C2_Witness ==
    /\ RunDoneWithUpload
    /\ \E s \in Sections : Triggered(s)
    /\ Len(image_bytes_list) = 2
    /\ Len(events) = 2
    /\ events[1].kind = "raise"
    /\ events[2].kind = "response"

\* The cards of the page, in the order they were rendered.
CardsOf(elements) == SelectSeq(elements, LAMBDA x : x.element = "card")
\* The elements the upload loop renders for an upload: the image of a file
\* that opens, the error of a file that does not decode.
RECURSIVE UploadElements(_)
UploadElements(files) ==
    IF files = <<>> THEN <<>>
    ELSE LET f == Head(files)
             shown == IF f.kind = "unopenable" THEN <<>>
                      ELSE << [element |-> "image", name |-> f.name] >>
             failed == IF f.kind = "ok" THEN <<>>
                       ELSE << [element |-> "error", name |-> f.name] >>
         IN shown \o failed \o UploadElements(Tail(files))
\* The entries a run appends, from its inputs and from how its calls ended.
ExpectedEntries ==
    IF NoneTriggered THEN <<>>
    ELSE LET s == CHOOSE t \in Sections : Triggered(t) IN
           [k \in 1..Len(OkFiles(uploaded_file)) |->
              [title |-> TitleOf(s, k - 1), content |-> ContentOf(events[k])]]
\* One feed of cards for a list of entries, newest first.
ExpectedFeed(rs) ==
    IF rs = <<>> THEN <<>>
    ELSE << [element |-> "rule"], [element |-> "heading"] >>
           \o [i \in 1..Len(rs) |->
                 [element |-> "card", h4 |-> rs[Len(rs) + 1 - i].title,
                  p |-> rs[Len(rs) + 1 - i].content]]
\* The page of a finished run, from its inputs, from how its calls ended and
\* from the results list `start` it began with.
ExpectedPage(start) ==
    IF ~GEMINI_KEY THEN << [element |-> "stop"] >>
    ELSE IF uploaded_file = <<>> THEN << [element |-> "info"] >>
    ELSE UploadElements(uploaded_file)
           \o (IF custom_question /\ IsBlankText(custom_user_prompt)
               THEN << [element |-> "warning"] >> ELSE <<>>)
           \o ExpectedFeed(start \o ExpectedEntries)
           \o ExpectedFeed(start \o ExpectedEntries)
           \o << [element |-> "rule"], [element |-> "tip"] >>
RunOver == pc \in {"done", "stopped"}

\* C3: at the end of every run with an upload, the page holds exactly one
\* card for each entry of the session results list, newest first.
C3_OneCardPerEntryNewestFirst ==
    RunDoneWithUpload =>
      CardsOf(page) = [i \in 1..Len(Results) |-> Card(Results[Len(Results) + 1 - i])]

\* C4, as stated: what a run renders is determined by the run's inputs and
\* the model's replies in it alone, so it is the page a new session renders
\* for these inputs and replies.
C4_PageDependsOnRunAlone == RunOver => page = ExpectedPage(<<>>)
\* C4, amended: what a run renders is determined by the run's inputs, the
\* model's replies in it and the results list the run started with.
C4_PageDependsOnRunAndStoredResults == RunOver => page = ExpectedPage(startResults)
\* A run that started with stored results has appended to them and rendered.
C4_Witness ==
    /\ RunDoneWithUpload
    /\ startResults # <<>>
    /\ Len(Results) > Len(startResults)

\* The calls of the run whose request was built, in order.
BuiltCalls ==
    LET sent(k) == k > Len(events) \/ events[k].place # "build"
        RECURSIVE pick(_)
        pick(k) == IF k > Len(calls) THEN <<>>
                   ELSE (IF sent(k) THEN << calls[k] >> ELSE <<>>) \o pick(k + 1)
    IN pick(1)
\* C5, as stated: the requests of a run are as many as the (image, action)
\* pairs it has processed, one per call of call_gemini_with_image.
C5_RequestsEqualCalls == callpc # "sent" => Len(requests) = Len(events)
\* C5, amended: a call sends at most one request and never sends it again:
\* the requests of a run are, in order, those of its calls whose request was
\* built, so they are as many as the pairs processed less the calls that
\* raised before sending.
C5_OneRequestPerBuiltCall ==
    /\ Len(requests) <= Len(calls)
    /\ Len(requests) = Len(BuiltCalls)
    /\ \A k \in 1..Len(requests) :
         requests[k] = Request(BuiltCalls[k].image_bytes, BuiltCalls[k].prompt_text,
                               BuiltCalls[k].thinking_budget)
\* The request of the first call failed on the network, and the run went on
\* to the second image.
C5_Witness ==
    /\ Len(events) = 2
    /\ events[1].kind = "raise"
    /\ events[1].place = "network"
    /\ Len(requests) = 2

\* C6: at most one request is outstanding, and while the request of the
\* k-th call is outstanding the k-1 calls before it have ended and their
\* entries have been appended.
C6_CallsAreSequential ==
    /\ Cardinality(inflight) <= 1
    /\ inflight # {} =>
         /\ callpc = "sent"
         /\ Len(events) = Len(calls) - 1
         /\ Len(Results) = Len(startResults) + Len(calls) - 1
\* The request for the second image is outstanding.
C6_Witness == inflight # {} /\ Len(calls) = 2

\* C7: in the run in which Clear is pressed no call is made and nothing is
\* appended, the list is empty when the script restarts, and the run that
\* follows starts with an empty list; the uploaded files play no part.
C7_ClearEmptiesAndRestarts ==
    /\ [](clear_results =>
            /\ calls = <<>>
            /\ requests = <<>>
            /\ Results \in {startResults, <<>>}
            /\ pc \in {"config", "session", "rerun", "stopped"}
            /\ pc = "rerun" => Results = <<>>)
    /\ [][clear_results /\ pc' = "config" =>
            Results' = <<>> /\ startResults' = <<>> /\ ~clear_results']_vars
    /\ [][clear_results /\ pc = "session" => pc' = "rerun"]_vars
\* Clear has emptied a list that held entries, with files uploaded.
C7_Witness == pc = "rerun" /\ startResults # <<>> /\ uploaded_file # <<>>

\* C8: a file that does not decode gets an error message and contributes no
\* image bytes, no call and no entry, the other files are processed, and an
\* entry is numbered by the place of its image among the decoded ones.
C8_UndecodableFilesAreSkipped ==
    /\ pc \notin {"config", "session", "rerun", "decode", "stopped", "idle"} =>
         /\ Len(image_bytes_list) = Len(OkFiles(uploaded_file))
         /\ \A k \in 1..Len(image_bytes_list) :
              image_bytes_list[k] = <<"jpeg", OkFiles(uploaded_file)[k].name>>
         /\ \A j \in 1..Len(uploaded_file) :
              uploaded_file[j].kind # "ok" <=>
                \E i \in 1..Len(page) :
                  page[i] = [element |-> "error", name |-> uploaded_file[j].name]
    /\ \A k \in 1..Len(calls) :
         calls[k].image_bytes = <<"jpeg", OkFiles(uploaded_file)[k].name>>
    /\ RunDoneWithUpload /\ ~NoneTriggered =>
         /\ Len(NewResults) = Len(OkFiles(uploaded_file))
         /\ \A k \in 1..Len(NewResults) :
              TitleSuffix(NewResults[k].title) = <<" (Image ", Str(k), ")">>
\* The first file does not decode, the second does and got entry (Image 1).
C8_Witness ==
    /\ RunDoneWithUpload
    /\ Len(uploaded_file) = 2
    /\ uploaded_file[1].kind # "ok"
    /\ uploaded_file[2].kind = "ok"
    /\ Len(NewResults) = 1

\* C9: Custom Question pressed with an empty or blank text makes no call
\* and leaves the results list as it was; the run shows the warning.
C9_BlankQuestionDoesNothing ==
    custom_question /\ IsBlankText(custom_user_prompt) =>
      /\ calls = <<>>
      /\ requests = <<>>
      /\ Results = startResults
      /\ RunDoneWithUpload =>
           Len(SelectSeq(page, LAMBDA x : x.element = "warning")) = 1
\* The text is whitespace and two images are decoded.
C9_Witness ==
    /\ RunDoneWithUpload
    /\ custom_question
    /\ custom_user_prompt = <<" ">>
    /\ Len(image_bytes_list) = 2

\* C10: unless Clear is pressed the list a run started with is a prefix of
\* the list it holds; a run with no upload or with no action button pressed
\* makes no call and leaves the list as it was; with no upload the stored
\* results stay and no feed is rendered.
C10_ResultsAreAppendOnly ==
    /\ ~clear_results => IsPrefix(startResults, Results)
    /\ uploaded_file = <<>> \/ ~(find_disease \/ suggestions \/ custom_question) =>
         /\ calls = <<>>
         /\ requests = <<>>
         /\ ~clear_results => Results = startResults
    /\ pc = "done" /\ uploaded_file = <<>> =>
         \A i \in 1..Len(page) : page[i].element \notin {"card", "heading"}
\* A run without upload ended with entries stored.
C10_Witness == pc = "done" /\ uploaded_file = <<>> /\ Results # <<>>

====
